---- MODULE Spec2Model ----
(***************************************************************************)
(* Model of pcdsdevices/slits.py: the Slits composite device (two width    *)
(* axes moved together, insertion state, transmission estimate, lazy       *)
(* readback subscription) and the SlitPositioner axes it owns.             *)
(*                                                                         *)
(* Lengths are integers (one unit is an arbitrary fraction of a mm); a     *)
(* quotient of two lengths is kept as the pair <<numerator, denominator>>. *)
(* The ophyd objects the module calls (MoveStatus, AndStatus, status.wait, *)
(* PVPositioner.move/stop, OphydObject.subscribe) are modelled at the call *)
(* site in slits.py that uses them.                                        *)
(***************************************************************************)
EXTENDS Integers, FiniteSets, Sequences, TLC

\* ------------------------------------------------------------------ bounds
MaxSize == 1        \* move targets are drawn from 0..MaxSize
MaxPos == 2         \* readbacks are drawn from -MaxOverlap..MaxPos
MaxOverlap == 1     \* blades may overlap: a readback may be negative
MaxNominal == 2     \* nominal_aperture components are drawn from 1..MaxNominal
MaxCalls == 2       \* calls of Slits.move / Slits.remove in one run
MaxSubscribes == 2  \* calls of Slits.subscribe in one run

\* ------------------------------------------------------------- vocabulary
Axes == {"xwidth", "ywidth"}            \* the two axes Slits.move drives
Positioners == {"xcenter", "xwidth", "ycenter", "ywidth"}  \* lines 117-120
Threads == {"t1", "t2"}                 \* threads that may call subscribe
Sizes == 0..MaxSize
Positions == (0 - MaxOverlap)..MaxPos
NominalValues == 1..MaxNominal
Callbacks == {"cb1", "cb2"}             \* external subscribers
SUB_STATE == "sub_state_changed"
SUB_ACQ_DONE == "acq_done"              \* the other event type of a Device
EventTypes == {SUB_STATE, SUB_ACQ_DONE}
NoSize == [kind |-> "none"]
Scalar(s) == [kind |-> "scalar", w |-> s, h |-> s]
Pair(w, h) == [kind |-> "tuple", w |-> w, h |-> h]
SizeArgs == {Scalar(s) : s \in Sizes} \cup {Pair(w, h) : w \in Sizes, h \in Sizes}

\* ---------------------------------------------------------- PV addresses
\* Strings are sequences of characters. The four positioners are built
\* with the empty suffix (lines 117-120), so each has the prefix of the
\* Slits device itself.
PREFIX == <<"S", "L">>
slit_type(a) ==
  CASE a = "xcenter" -> <<"X", "C", "E", "N", "T", "E", "R">>
    [] a = "xwidth" -> <<"X", "W", "I", "D", "T", "H">>
    [] a = "ycenter" -> <<"Y", "C", "E", "N", "T", "E", "R">>
    [] a = "ywidth" -> <<"Y", "W", "I", "D", "T", "H">>
\* Lines 67-68: _dirlong = slit_type, _dirshort = slit_type[:4].
dirlong(a) == slit_type(a)
dirshort(a) ==
  SubSeq(slit_type(a), 1, IF Len(slit_type(a)) < 4 THEN Len(slit_type(a)) ELSE 4)
\* Line 58: "{self.prefix}:{self._dirshort}_REQ".
setpoint_pv(a) == PREFIX \o <<":">> \o dirshort(a) \o <<"_", "R", "E", "Q">>
\* Line 59: "{self.prefix}:ACTUAL_{self._dirlong}".
readback_pv(a) ==
  PREFIX \o <<":", "A", "C", "T", "U", "A", "L", "_">> \o dirlong(a)
\* Variant: the done flag is addressed per axis, like the readback.
done_pv_per_axis(a) == PREFIX \o <<":">> \o dirlong(a) \o <<":", "D", "M", "O", "V">>
\* Line 60: the prefix followed by ":DMOV", whatever the slit_type.
done_pv(a) == PREFIX \o <<":", "D", "M", "O", "V">>
\* Lines 121-124: the blocked readback and the three command PVs.
command_pv(c) ==
  CASE c = "blocked" -> PREFIX \o <<":", "B", "L", "O", "C", "K", "E", "D">>
    [] c = "open" -> PREFIX \o <<":", "O", "P", "E", "N">>
    [] c = "close" -> PREFIX \o <<":", "C", "L", "O", "S", "E">>
    [] c = "block" -> PREFIX \o <<":", "B", "L", "O", "C", "K">>
CommandNames == {"blocked", "open", "close", "block"}
\* The done-flag PVs the two width axes monitor.
DonePVs == {done_pv(a) : a \in Axes}

VARIABLES
  nominal_aperture,  \* <<width, height>> given to __init__
  setpoint,          \* value of each axis' setpoint PV
  readback,          \* value of each axis' readback PV (= axis.position)
  moving,            \* PVPositioner._moving of each axis, from its DMOV PV
  x_stat, y_stat,    \* the MoveStatus of the current call for each axis
  status,            \* the AndStatus of the current call
  pc,                \* line of Slits.move the caller is at, or "idle"
  width, height,     \* the unpacked size of the current call
  wait, timeout,     \* arguments of the current call
  moved_cb,          \* whether a moved_cb was given
  cb_attached,       \* moved_cb is queued in status._callbacks
  cb_calls,          \* invocations of moved_cb in the current call
  writes,            \* setpoint.put calls of the current call, per axis
  stops,             \* axis.stop() calls of the current call, per axis
  outcome,           \* how the last call left Slits.move
  ncalls,            \* calls made so far
  last_cmd,          \* command PV last written (by __init__, open, close, block)
  has_subscribed,    \* Slits._has_subscribed
  listeners,         \* _aperture_changed subscriptions on each readback
  subs,              \* callbacks registered on the Slits, per event type
  nsubscribes,       \* calls of Slits.subscribe so far
  last_calls,        \* per callback: invocations by the last readback event
  last_event,        \* keywords of the last event run for the subscribers
  original_vals,     \* Slits._original_vals: signal -> value to restore
  staged,            \* Device._staged
  sub_pc, sub_arg    \* per thread: line of Slits.subscribe and its arguments

moveVars == <<x_stat, y_stat, status, pc, width, height, wait, timeout,
              moved_cb, cb_attached, cb_calls, writes, stops, outcome, ncalls>>
axisVars == <<setpoint, readback, moving>>
subVars == <<has_subscribed, listeners, subs, nsubscribes, last_calls>>
stageVars == <<original_vals, staged>>
threadVars == <<sub_pc, sub_arg>>
vars == <<nominal_aperture, axisVars, moveVars, last_cmd, subVars, last_event,
          stageVars, threadVars>>

NoEvent == [sub_type |-> "none"]
NoArg == [cb |-> "none", event_type |-> "None"]
NoVals == [sig \in {} |-> 0]            \* an empty _original_vals
StatusValues == {"none", "pending", "success", "failed"}
Done(s) == s \in {"success", "failed"}

Init ==
  /\ nominal_aperture \in NominalValues \X NominalValues
  /\ setpoint = [a \in Positioners |-> 0]
  /\ readback = [a \in Axes |-> 0]
  /\ moving = [a \in Axes |-> FALSE]
  /\ x_stat = "none" /\ y_stat = "none" /\ status = "none"
  /\ pc = "idle"
  /\ width = 0 /\ height = 0
  /\ wait = FALSE /\ timeout = "None"
  /\ moved_cb = FALSE /\ cb_attached = FALSE /\ cb_calls = 0
  /\ writes = [a \in Axes |-> 0]
  /\ stops = [a \in Axes |-> 0]
  /\ outcome = "none"
  /\ ncalls = 0
  /\ last_cmd = "block"
  /\ has_subscribed = FALSE
  /\ listeners = [a \in Axes |-> 0]
  /\ subs = [e \in EventTypes |-> {}]
  /\ nsubscribes = 0
  /\ last_calls = [c \in Callbacks |-> 0]
  /\ last_event = NoEvent
  /\ original_vals = NoVals
  /\ staged = "no"
  /\ sub_pc = [t \in Threads |-> "idle"]
  /\ sub_arg = [t \in Threads |-> NoArg]

\* Construction without a nominal_aperture argument: the default of line
\* 134 is a square aperture.
InitDefault == Init /\ nominal_aperture = <<MaxNominal, MaxNominal>>

\* ------------------------------------------------- ophyd status objects
\* AndStatus.inner, run from the callbacks of both operands: a finished
\* status stays as it is; a failed operand fails the combination at once,
\* without waiting for the other; success needs both operands successful.
\* Variant: success as soon as one operand succeeded (an OR of the two).
inner_any(cur, left, right) ==
  IF cur # "pending" THEN cur
  ELSE IF left = "failed" THEN "failed"
  ELSE IF right = "failed" THEN "failed"
  ELSE IF left = "success" \/ right = "success" THEN "success"
  ELSE "pending"

\* Variant: the failure of the right operand is not looked at.
inner_left(cur, left, right) ==
  IF cur # "pending" THEN cur
  ELSE IF left = "failed" THEN "failed"
  ELSE IF left = "success" /\ Done(right) THEN "success"
  ELSE "pending"

inner(cur, left, right) ==
  IF cur # "pending" THEN cur
  ELSE IF left = "failed" THEN "failed"
  ELSE IF right = "failed" THEN "failed"
  ELSE IF left = "success" /\ right = "success" THEN "success"
  ELSE "pending"

\* x_stat & y_stat (line 176): a new AndStatus; add_callback runs inner at
\* once for an operand that is already done.
AndStatus(left, right) == inner("pending", left, right)

\* StatusBase._finished of the MoveStatus of the axes in S, with its
\* callbacks: the axis status resolves (once), inner re-evaluates the AndStatus if line 176
\* has built it, and a queued moved_cb runs when the AndStatus finishes.
FinishedSet(S, result) ==
  LET nx == IF "xwidth" \in S /\ x_stat = "pending" THEN result ELSE x_stat
      ny == IF "ywidth" \in S /\ y_stat = "pending" THEN result ELSE y_stat
      ns == IF status = "none" THEN "none" ELSE inner(status, nx, ny)
      fired == cb_attached /\ status = "pending" /\ Done(ns)
  IN /\ x_stat' = nx
     /\ y_stat' = ny
     /\ status' = ns
     /\ cb_attached' = (cb_attached /\ ~fired)
     /\ cb_calls' = cb_calls + (IF fired THEN 1 ELSE 0)
Finished(a, result) == FinishedSet({a}, result)

\* ------------------------------------------------------- SlitPositioner
\* SlitPositioner._setup_move: setpoint.put(position, wait=False); the put
\* returns without waiting for the motion.
setup_move(sp, a, position) == [sp EXCEPT ![a] = position]

\* Variant: the put is repeated once (a retry).
PutsWithRetry == 1 + 1

\* Number of setpoint.put calls one axis.move makes.
PutsPerMove == 1

\* ----------------------------------------------------------- Slits.move
\* Variant: the tuple is unpacked in the other order.
Unpack_swapped(size) ==
  IF size.kind = "tuple" THEN <<size.h, size.w>> ELSE <<size.w, size.w>>

\* Lines 169-172: a tuple is unpacked, anything else is used for both.
Unpack(size) == IF size.kind = "tuple" THEN <<size.w, size.h>> ELSE <<size.w, size.w>>

\* Entry of Slits.move(size, wait, moved_cb, timeout): bind the arguments.
Enter(size, w, cb, t) ==
  /\ pc = "idle"
  /\ ncalls < MaxCalls
  /\ ncalls' = ncalls + 1
  /\ width' = Unpack(size)[1]
  /\ height' = Unpack(size)[2]
  /\ wait' = w /\ moved_cb' = cb /\ timeout' = t
  /\ x_stat' = "none" /\ y_stat' = "none" /\ status' = "none"
  /\ cb_attached' = FALSE /\ cb_calls' = 0
  /\ writes' = [a \in Axes |-> 0]
  /\ stops' = [a \in Axes |-> 0]
  /\ outcome' = "none"
  /\ pc' = "L174"
  /\ UNCHANGED <<nominal_aperture, axisVars, last_cmd, subVars>>
  /\ UNCHANGED <<last_event, stageVars, threadVars>>

Move(size, w, cb, t) == Enter(size, w, cb, t)

\* Slits.remove: size = size or self.nominal_aperture, then move.
Truthy(size) == size.kind = "tuple" \/ (size.kind = "scalar" /\ size.w # 0)
RemoveSize(size) ==
  IF Truthy(size) THEN size ELSE Pair(nominal_aperture[1], nominal_aperture[2])
Remove(size, w, cb, t) == Enter(RemoveSize(size), w, cb, t)

\* Slits.set: move(size, wait=False).
Set(size) == Enter(size, FALSE, FALSE, "None")

\* Line 174: x_stat = self.xwidth.move(width, wait=False, timeout=timeout).
\* PVPositioner.move builds the MoveStatus and calls _setup_move; a put
\* that raises leaves Slits.move with the exception.
MoveX(ok) ==
  /\ pc = "L174"
  /\ IF ok
       THEN /\ setpoint' = setup_move(setpoint, "xwidth", width)
            /\ writes' = [writes EXCEPT !["xwidth"] = @ + PutsPerMove]
            /\ x_stat' = "pending"
            /\ pc' = "L175"
            /\ UNCHANGED outcome
       ELSE /\ outcome' = "PutError"
            /\ pc' = "idle"
            /\ UNCHANGED <<setpoint, writes, x_stat>>
  /\ UNCHANGED <<nominal_aperture, readback, moving, y_stat, status, width,
                 height, wait, timeout, moved_cb, cb_attached, cb_calls,
                 stops, ncalls, last_cmd, subVars>>
  /\ UNCHANGED <<last_event, stageVars, threadVars>>

\* Line 175: y_stat = self.ywidth.move(height, wait=False, timeout=timeout).
MoveY(ok) ==
  /\ pc = "L175"
  /\ IF ok
       THEN /\ setpoint' = setup_move(setpoint, "ywidth", height)
            /\ writes' = [writes EXCEPT !["ywidth"] = @ + PutsPerMove]
            /\ y_stat' = "pending"
            /\ pc' = "L176"
            /\ UNCHANGED outcome
       ELSE /\ outcome' = "PutError"
            /\ pc' = "idle"
            /\ UNCHANGED <<setpoint, writes, y_stat>>
  /\ UNCHANGED <<nominal_aperture, readback, moving, x_stat, status, width,
                 height, wait, timeout, moved_cb, cb_attached, cb_calls,
                 stops, ncalls, last_cmd, subVars>>
  /\ UNCHANGED <<last_event, stageVars, threadVars>>

\* Line 176: status = x_stat & y_stat.
Combine ==
  /\ pc = "L176"
  /\ status' = AndStatus(x_stat, y_stat)
  /\ pc' = "L178"
  /\ UNCHANGED <<nominal_aperture, axisVars, x_stat, y_stat, width, height,
                 wait, timeout, moved_cb, cb_attached, cb_calls, writes,
                 stops, outcome, ncalls, last_cmd, subVars>>
  /\ UNCHANGED <<last_event, stageVars, threadVars>>

\* Variant: add_callback only queues the callback, also on a done status.
AddCallback_queue_only ==
  /\ pc = "L178"
  /\ IF moved_cb
       THEN cb_attached' = TRUE /\ UNCHANGED cb_calls
       ELSE UNCHANGED <<cb_attached, cb_calls>>
  /\ pc' = "L181"
  /\ UNCHANGED <<nominal_aperture, axisVars, x_stat, y_stat, status, width,
                 height, wait, timeout, moved_cb, writes, stops, outcome,
                 ncalls, last_cmd, subVars>>
  /\ UNCHANGED <<last_event, stageVars, threadVars>>

\* Lines 178-179: status.add_callback(moved_cb) runs the callback at once
\* when the status is already done, and queues it otherwise.
AddCallback ==
  /\ pc = "L178"
  /\ IF moved_cb
       THEN IF Done(status)
              THEN cb_calls' = cb_calls + 1 /\ UNCHANGED cb_attached
              ELSE cb_attached' = TRUE /\ UNCHANGED cb_calls
       ELSE UNCHANGED <<cb_attached, cb_calls>>
  /\ pc' = "L181"
  /\ UNCHANGED <<nominal_aperture, axisVars, x_stat, y_stat, status, width,
                 height, wait, timeout, moved_cb, writes, stops, outcome,
                 ncalls, last_cmd, subVars>>
  /\ UNCHANGED <<last_event, stageVars, threadVars>>

\* Variant: the status is returned from inside the wait branch only.
WaitBranch_return_in_if ==
  /\ pc = "L181"
  /\ IF wait
       THEN pc' = "L183" /\ UNCHANGED outcome
       ELSE pc' = "idle" /\ outcome' = "None"
  /\ UNCHANGED <<nominal_aperture, axisVars, x_stat, y_stat, status, width,
                 height, wait, timeout, moved_cb, cb_attached, cb_calls,
                 writes, stops, ncalls, last_cmd, subVars>>
  /\ UNCHANGED <<last_event, stageVars, threadVars>>

\* Line 181 and, for wait=False, line 188: return status.
WaitBranch ==
  /\ pc = "L181"
  /\ IF wait
       THEN pc' = "L183" /\ UNCHANGED outcome
       ELSE pc' = "idle" /\ outcome' = "status"
  /\ UNCHANGED <<nominal_aperture, axisVars, x_stat, y_stat, status, width,
                 height, wait, timeout, moved_cb, cb_attached, cb_calls,
                 writes, stops, ncalls, last_cmd, subVars>>
  /\ UNCHANGED <<last_event, stageVars, threadVars>>

\* What ophyd.status.wait(status) does once the status is done: it returns
\* for a successful status and raises RuntimeError for a failed one.
status_wait(s) == IF s = "success" THEN "status" ELSE "RuntimeError"

\* Line 183 then 188: status_wait(status) ends when the status is done.
WaitDone ==
  /\ pc = "L183"
  /\ Done(status)
  /\ outcome' = status_wait(status)
  /\ pc' = "idle"
  /\ UNCHANGED <<nominal_aperture, axisVars, x_stat, y_stat, status, width,
                 height, wait, timeout, moved_cb, cb_attached, cb_calls,
                 writes, stops, ncalls, last_cmd, subVars>>
  /\ UNCHANGED <<last_event, stageVars, threadVars>>

\* Line 184: a KeyboardInterrupt arrives while status_wait is polling.
Interrupt ==
  /\ pc = "L183"
  /\ pc' = "L185"
  /\ UNCHANGED <<nominal_aperture, axisVars, x_stat, y_stat, status, width,
                 height, wait, timeout, moved_cb, cb_attached, cb_calls,
                 writes, stops, outcome, ncalls, last_cmd, subVars>>
  /\ UNCHANGED <<last_event, stageVars, threadVars>>

\* Line 185: self.xwidth.stop(); PositionerBase.stop ends the requested
\* move as unsuccessful.
StopX ==
  /\ pc = "L185"
  /\ stops' = [stops EXCEPT !["xwidth"] = @ + 1]
  /\ Finished("xwidth", "failed")
  /\ pc' = "L186"
  /\ UNCHANGED <<nominal_aperture, axisVars, width, height, wait, timeout,
                 moved_cb, writes, outcome, ncalls, last_cmd, subVars>>
  /\ UNCHANGED <<last_event, stageVars, threadVars>>

\* Variant: line 186 is missing, only xwidth is stopped.
StopY_missing ==
  /\ pc = "L186"
  /\ pc' = "L187"
  /\ UNCHANGED <<nominal_aperture, axisVars, x_stat, y_stat, status, width,
                 height, wait, timeout, moved_cb, cb_attached, cb_calls,
                 writes, stops, outcome, ncalls, last_cmd, subVars>>
  /\ UNCHANGED <<last_event, stageVars, threadVars>>

\* Line 186: self.ywidth.stop().
StopY ==
  /\ pc = "L186"
  /\ stops' = [stops EXCEPT !["ywidth"] = @ + 1]
  /\ Finished("ywidth", "failed")
  /\ pc' = "L187"
  /\ UNCHANGED <<nominal_aperture, axisVars, width, height, wait, timeout,
                 moved_cb, writes, outcome, ncalls, last_cmd, subVars>>
  /\ UNCHANGED <<last_event, stageVars, threadVars>>

\* Line 187: raise.
Reraise ==
  /\ pc = "L187"
  /\ outcome' = "KeyboardInterrupt"
  /\ pc' = "idle"
  /\ UNCHANGED <<nominal_aperture, axisVars, x_stat, y_stat, status, width,
                 height, wait, timeout, moved_cb, cb_attached, cb_calls,
                 writes, stops, ncalls, last_cmd, subVars>>
  /\ UNCHANGED <<last_event, stageVars, threadVars>>

\* ------------------------------------------------ the control system side
\* The done-flag PV at address pv takes value v. Every axis whose done
\* signal (line 60) has that address sees the change:
\* PVPositioner._move_changed ends the requested move of the axis
\* successfully on a moving -> done transition.
DONE_VALUE == 1
DmovChange(pv, v) ==
  LET watchers == {a \in Axes : done_pv(a) = pv}
      finishing == {a \in watchers : moving[a] /\ v = DONE_VALUE}
  IN /\ \E a \in watchers : moving[a] # (v # DONE_VALUE)
     /\ moving' = [a \in Axes |-> IF a \in watchers THEN v # DONE_VALUE ELSE moving[a]]
     /\ IF finishing # {}
          THEN FinishedSet(finishing, "success")
          ELSE UNCHANGED <<x_stat, y_stat, status, cb_attached, cb_calls>>
     /\ UNCHANGED <<nominal_aperture, setpoint, readback, pc, width, height,
                    wait, timeout, moved_cb, writes, stops, outcome, ncalls,
                    last_cmd, subVars>>
     /\ UNCHANGED <<last_event, stageVars, threadVars>>

\* The timeout given to axis.move (lines 174-175) elapses on the MoveStatus
\* of axis a before the move is done: the status fails. "finite" stands for
\* a positive number of seconds, "None" for no timeout (no timer runs).
AxisStat(a) == IF a = "xwidth" THEN x_stat ELSE y_stat

\* Variant: the timeout is not handed on to the axis moves, so no timer runs.
TimeoutNotForwarded(a) == FALSE /\ UNCHANGED vars

TimeoutElapses(a) ==
  /\ timeout = "finite"
  /\ AxisStat(a) = "pending"
  /\ Finished(a, "failed")
  /\ UNCHANGED <<nominal_aperture, axisVars, pc, width, height, wait,
                 timeout, moved_cb, writes, stops, outcome, ncalls,
                 last_cmd, subVars>>
  /\ UNCHANGED <<last_event, stageVars, threadVars>>

\* The readback PV of axis a takes a new value v (the blades moved; a
\* negative value is an overlap of the blades, as block() produces). Every
\* _aperture_changed attached to that readback runs (lines 321-329) and
\* _run_subs calls each callback registered for SUB_STATE.
aperture_changed(n) == [c \in Callbacks |-> IF c \in subs[SUB_STATE] THEN n ELSE 0]

\* The keywords of the value event of the readback signal of axis a.
SignalEvent(a, v) ==
  [sub_type |-> "value", obj |-> readback_pv(a), value |-> v, old_value |-> readback[a]]

\* Variant: the keywords of the signal event are passed on as they are.
forward_as_is(kwargs) == kwargs

\* Lines 326-329: sub_type and obj are dropped from the keywords and
\* _run_subs gets sub_type=SUB_STATE, obj=self and the other keywords.
forward(kwargs) == [kwargs EXCEPT !.sub_type = SUB_STATE, !.obj = "slits"]

ReadbackChange(a, v) ==
  /\ v # readback[a]
  /\ readback' = [readback EXCEPT ![a] = v]
  /\ last_calls' = aperture_changed(listeners[a])
  /\ last_event' = IF listeners[a] > 0 THEN forward(SignalEvent(a, v)) ELSE last_event
  /\ UNCHANGED <<nominal_aperture, setpoint, moving, moveVars, last_cmd,
                 has_subscribed, listeners, subs, nsubscribes>>
  /\ UNCHANGED <<stageVars, threadVars>>

\* ------------------------------------------------- Slits derived queries
\* Slits.current_aperture (lines 217-222); Python index i is TLA index i+1.
current_aperture == <<readback["xwidth"], readback["ywidth"]>>

\* Variant: any() instead of all().
inserted_any == \E idx \in 0..1 : nominal_aperture[idx + 1] > current_aperture[idx + 1]

\* Variant: >= instead of >.
inserted_or_equal ==
  \A idx \in 0..1 : nominal_aperture[idx + 1] >= current_aperture[idx + 1]

\* Slits.inserted (lines 190-196).
inserted == \A idx \in 0..1 : nominal_aperture[idx + 1] > current_aperture[idx + 1]

\* Slits.removed (lines 198-203).
removed == ~inserted

\* np.argmin of a pair: the index of the first smallest component.
argmin(t) == IF t[2] < t[1] THEN 1 ELSE 0

\* Quotients <<n, d>> with d > 0, compared by cross-multiplication.
One == <<1, 1>>
RatLess(p, q) == p[1] * q[2] < q[1] * p[2]
RatEq(p, q) == p[1] * q[2] = q[1] * p[2]
\* Python's min([p, q]): the first of the smallest.
min2(p, q) == IF RatLess(q, p) THEN q ELSE p

\* Variant: the nominal width is used whichever dimension is the smaller.
transmission_nominal_width ==
  LET min_dim == argmin(current_aperture)
  IN min2(<<current_aperture[min_dim + 1], nominal_aperture[1]>>, One)

\* Slits.transmission (lines 205-215).
transmission ==
  LET min_dim == argmin(current_aperture)
  IN min2(<<current_aperture[min_dim + 1], nominal_aperture[min_dim + 1]>>, One)

\* ------------------------------------------------- open / close / block
\* Lines 270-286: one put(1) to the command PV, nothing else.
Open ==
  /\ last_cmd' = "open"
  /\ UNCHANGED <<nominal_aperture, axisVars, moveVars, subVars>>
  /\ UNCHANGED <<last_event, stageVars, threadVars>>
\* Variant: close also requests a zero aperture through the width setpoints.
Close_and_zero ==
  /\ last_cmd' = "close"
  /\ setpoint' = [a \in Positioners |-> IF a \in Axes THEN 0 ELSE setpoint[a]]
  /\ UNCHANGED <<nominal_aperture, readback, moving, moveVars, subVars>>
  /\ UNCHANGED <<last_event, stageVars, threadVars>>
Close ==
  /\ last_cmd' = "close"
  /\ UNCHANGED <<nominal_aperture, axisVars, moveVars, subVars>>
  /\ UNCHANGED <<last_event, stageVars, threadVars>>
Block ==
  /\ last_cmd' = "block"
  /\ UNCHANGED <<nominal_aperture, axisVars, moveVars, subVars>>
  /\ UNCHANGED <<last_event, stageVars, threadVars>>

\* ------------------------------------------------------ Slits.subscribe
\* Lines 311-318: the first call attaches _aperture_changed to both width
\* readbacks and sets the flag.
attach(ls) == [a \in Axes |-> ls[a] + 1]

\* Variant: the flag is never set, every call attaches again.
Subscribe_flag_not_set(cb, event_type) ==
  /\ nsubscribes < MaxSubscribes
  /\ nsubscribes' = nsubscribes + 1
  /\ listeners' = attach(listeners)
  /\ UNCHANGED has_subscribed
  /\ LET et == IF event_type = "None" THEN SUB_STATE ELSE event_type
     IN IF et \in EventTypes
          THEN subs' = [subs EXCEPT ![et] = @ \cup {cb}]
          ELSE UNCHANGED subs
  /\ UNCHANGED <<nominal_aperture, axisVars, moveVars, last_cmd, last_calls>>
  /\ UNCHANGED <<last_event, stageVars, threadVars>>

\* Lines 296-319. event_type None means _default_sub (SUB_STATE); an event
\* type the device does not have makes super().subscribe raise, after the
\* readback listeners were attached.
Subscribe(cb, event_type) ==
  /\ nsubscribes < MaxSubscribes
  /\ nsubscribes' = nsubscribes + 1
  /\ IF ~has_subscribed
       THEN listeners' = attach(listeners) /\ has_subscribed' = TRUE
       ELSE UNCHANGED <<listeners, has_subscribed>>
  /\ LET et == IF event_type = "None" THEN SUB_STATE ELSE event_type
     IN IF et \in EventTypes
          THEN subs' = [subs EXCEPT ![et] = @ \cup {cb}]
          ELSE UNCHANGED subs
  /\ UNCHANGED <<nominal_aperture, axisVars, moveVars, last_cmd, last_calls>>
  /\ UNCHANGED <<last_event, stageVars, threadVars>>

\* ------------------------------------------------ Slits.stage / unstage
\* A signal is named by its positioner and its attribute.
Signal(a, attr) == <<a, attr>>
StageSignals == {Signal("xwidth", "setpoint"), Signal("ywidth", "setpoint")}

\* Variant: the value of the setpoint is saved, not that of the readback.
stage_vals_of_setpoint(vals) ==
  [sig \in (DOMAIN vals) \cup StageSignals |->
     IF sig \in StageSignals THEN setpoint[sig[1]] ELSE vals[sig]]

\* Lines 292-293: _original_vals[axis.setpoint] = axis.readback.value.
stage_vals(vals) ==
  [sig \in (DOMAIN vals) \cup StageSignals |->
     IF sig \in StageSignals THEN readback[sig[1]] ELSE vals[sig]]

\* Lines 288-294. Lines 292-293 run before super().stage(): on a device
\* that is already staged the saved values are replaced and then
\* Device.stage raises RedundantStaging, the device staying staged. The
\* device has no stage_sigs, so Device.stage writes nothing.
Stage ==
  /\ original_vals' = stage_vals(original_vals)
  /\ staged' = "yes"
  /\ UNCHANGED <<nominal_aperture, axisVars, moveVars, last_cmd, subVars>>
  /\ UNCHANGED <<last_event, threadVars>>

\* Device.unstage, the counterpart of line 294: every saved signal is set
\* back to its saved value (set_and_wait) and removed from _original_vals.
restore(sp, vals) ==
  [a \in Positioners |->
     IF Signal(a, "setpoint") \in DOMAIN vals
       THEN vals[Signal(a, "setpoint")] ELSE sp[a]]
Unstage ==
  /\ setpoint' = restore(setpoint, original_vals)
  /\ original_vals' = NoVals
  /\ staged' = "no"
  /\ UNCHANGED <<nominal_aperture, readback, moving, moveVars, last_cmd, subVars>>
  /\ UNCHANGED <<last_event, threadVars>>

\* ----------------------------------------- Slits.subscribe, line by line
\* A thread enters subscribe(cb, event_type).
SubCall(t, cb, event_type) ==
  /\ sub_pc[t] = "idle"
  /\ nsubscribes < MaxSubscribes
  /\ nsubscribes' = nsubscribes + 1
  /\ sub_pc' = [sub_pc EXCEPT ![t] = "L312"]
  /\ sub_arg' = [sub_arg EXCEPT ![t] = [cb |-> cb, event_type |-> event_type]]
  /\ UNCHANGED <<nominal_aperture, axisVars, moveVars, last_cmd, has_subscribed,
                 listeners, subs, last_calls, last_event, stageVars>>

\* Variant: the flag is set where it is tested, before the listeners are
\* attached.
SubCheck_sets_flag(t) ==
  /\ sub_pc[t] = "L312"
  /\ sub_pc' = [sub_pc EXCEPT ![t] = IF has_subscribed THEN "L319" ELSE "L314"]
  /\ has_subscribed' = TRUE
  /\ UNCHANGED <<nominal_aperture, axisVars, moveVars, last_cmd,
                 listeners, subs, nsubscribes, last_calls, last_event,
                 stageVars, sub_arg>>

\* Line 312: if not self._has_subscribed.
SubCheck(t) ==
  /\ sub_pc[t] = "L312"
  /\ sub_pc' = [sub_pc EXCEPT ![t] = IF has_subscribed THEN "L319" ELSE "L314"]
  /\ UNCHANGED <<nominal_aperture, axisVars, moveVars, last_cmd, has_subscribed,
                 listeners, subs, nsubscribes, last_calls, last_event,
                 stageVars, sub_arg>>

\* Lines 314-315: self.xwidth.readback.subscribe(self._aperture_changed);
\* a subscribe that raises leaves Slits.subscribe with the exception.
SubAttachX(t, ok) ==
  /\ sub_pc[t] = "L314"
  /\ IF ok
       THEN /\ listeners' = [listeners EXCEPT !["xwidth"] = @ + 1]
            /\ sub_pc' = [sub_pc EXCEPT ![t] = "L316"]
       ELSE /\ UNCHANGED listeners
            /\ sub_pc' = [sub_pc EXCEPT ![t] = "idle"]
  /\ UNCHANGED <<nominal_aperture, axisVars, moveVars, last_cmd, has_subscribed,
                 subs, nsubscribes, last_calls, last_event, stageVars, sub_arg>>

\* Lines 316-317: self.ywidth.readback.subscribe(self._aperture_changed).
SubAttachY(t, ok) ==
  /\ sub_pc[t] = "L316"
  /\ IF ok
       THEN /\ listeners' = [listeners EXCEPT !["ywidth"] = @ + 1]
            /\ sub_pc' = [sub_pc EXCEPT ![t] = "L318"]
       ELSE /\ UNCHANGED listeners
            /\ sub_pc' = [sub_pc EXCEPT ![t] = "idle"]
  /\ UNCHANGED <<nominal_aperture, axisVars, moveVars, last_cmd, has_subscribed,
                 subs, nsubscribes, last_calls, last_event, stageVars, sub_arg>>

\* Line 318: self._has_subscribed = True.
SubSetFlag(t) ==
  /\ sub_pc[t] = "L318"
  /\ has_subscribed' = TRUE
  /\ sub_pc' = [sub_pc EXCEPT ![t] = "L319"]
  /\ UNCHANGED <<nominal_aperture, axisVars, moveVars, last_cmd,
                 listeners, subs, nsubscribes, last_calls, last_event,
                 stageVars, sub_arg>>

\* Line 319: return super().subscribe(cb, event_type=event_type, run=run).
SubSuper(t) ==
  /\ sub_pc[t] = "L319"
  /\ LET et == IF sub_arg[t].event_type = "None" THEN SUB_STATE
               ELSE sub_arg[t].event_type
     IN IF et \in EventTypes
          THEN subs' = [subs EXCEPT ![et] = @ \cup {sub_arg[t].cb}]
          ELSE UNCHANGED subs
  /\ sub_pc' = [sub_pc EXCEPT ![t] = "idle"]
  /\ UNCHANGED <<nominal_aperture, axisVars, moveVars, last_cmd, has_subscribed,
                 listeners, nsubscribes, last_calls, last_event,
                 stageVars, sub_arg>>


\* ------------------------------------------------------- specifications
Timeouts == {"None", "finite"}
SubscribeTypes == {"None", SUB_STATE, SUB_ACQ_DONE, "unknown"}

MoveSteps ==
  \/ \E ok \in BOOLEAN : MoveX(ok)
  \/ \E ok \in BOOLEAN : MoveY(ok)
  \/ Combine
  \/ AddCallback
  \/ WaitBranch
  \/ WaitDone
  \/ Interrupt
  \/ StopX
  \/ StopY
  \/ Reraise

Calls ==
  \/ \E size \in SizeArgs, w \in BOOLEAN, cb \in BOOLEAN, t \in Timeouts :
       Move(size, w, cb, t)
  \/ \E size \in SizeArgs \cup {NoSize}, w \in BOOLEAN, cb \in BOOLEAN, t \in Timeouts :
       Remove(size, w, cb, t)
  \/ \E size \in SizeArgs : Set(size)

\* Non-blocking calls without callback or timeout, as the aperture queries
\* see them.
PlainCalls ==
  \/ \E size \in SizeArgs : Move(size, FALSE, FALSE, "None")
  \/ \E size \in SizeArgs \cup {NoSize} : Remove(size, FALSE, FALSE, "None")
  \/ \E size \in SizeArgs : Set(size)

Motion ==
  \/ \E pv \in DonePVs, v \in {0, 1} : DmovChange(pv, v)
  \/ \E a \in Axes : TimeoutElapses(a)

Readbacks == \E a \in Axes, v \in Positions : ReadbackChange(a, v)

Commands == Open \/ Close \/ Block

Subscribes == \E cb \in Callbacks, et \in SubscribeTypes : Subscribe(cb, et)

\* Every operation of the device and every event of the control system.
Next == Calls \/ MoveSteps \/ Motion \/ Readbacks \/ Commands \/ Subscribes
Spec == Init /\ [][Next]_vars

\* The move protocol: calls of move/remove/set, their steps, and the
\* done-flag and timeout events that resolve their statuses.
MoveNext == Calls \/ MoveSteps \/ Motion
SpecMove == Init /\ [][MoveNext]_vars

\* The move protocol with its scheduling: the calling thread runs each line
\* it has reached (an interrupt is never forced) and the timer thread of a
\* MoveStatus with a timeout runs. The next call is made once the joint
\* status of the previous one is resolved.
LiveNext == (status # "pending" /\ Calls) \/ MoveSteps \/ Motion
SpecLive ==
  /\ InitDefault /\ [][LiveNext]_vars
  /\ WF_vars(\E ok \in BOOLEAN : MoveX(ok))
  /\ WF_vars(\E ok \in BOOLEAN : MoveY(ok))
  /\ WF_vars(Combine) /\ WF_vars(AddCallback) /\ WF_vars(WaitBranch)
  /\ WF_vars(WaitDone)
  /\ WF_vars(StopX) /\ WF_vars(StopY) /\ WF_vars(Reraise)
  /\ \A a \in Axes : WF_vars(TimeoutElapses(a))

\* The aperture as the queries see it: non-blocking moves, the readbacks
\* and the three commands.
PlainSteps ==
  \/ \E ok \in BOOLEAN : MoveX(ok)
  \/ \E ok \in BOOLEAN : MoveY(ok)
  \/ Combine
  \/ AddCallback
  \/ WaitBranch
ApertureNext ==
  \/ PlainCalls
  \/ PlainSteps
  \/ Readbacks
  \/ Commands
SpecAperture == Init /\ [][ApertureNext]_vars

\* Subscriptions and the readback events they forward.
SubscribeNext == Subscribes \/ Readbacks
SpecSubscribe == Init /\ [][SubscribeNext]_vars

\* Staging: stage and unstage around non-blocking square moves and
\* readback changes; the readbacks take the two extreme positions, one of
\* which (an overlap) no move writes to a setpoint.
StagePositions == {0 - MaxOverlap, MaxPos}
StageNext ==
  \/ \E s \in Sizes : Set(Scalar(s))
  \/ PlainSteps
  \/ \E a \in Axes, v \in StagePositions : ReadbackChange(a, v)
  \/ Stage
  \/ Unstage
SpecStage == InitDefault /\ [][StageNext]_vars

\* The three commands among the operations whose state they must leave
\* alone: non-blocking moves, staging and subscription.
CommandNext ==
  \/ Commands
  \/ \E size \in SizeArgs : Set(size)
  \/ PlainSteps
  \/ Stage
  \/ Unstage
  \/ \E cb \in Callbacks : Subscribe(cb, "None")
SpecCommand == InitDefault /\ [][CommandNext]_vars

\* subscribe run line by line by threads that share the device.
SubscribeCalls == \E t \in Threads, cb \in Callbacks : SubCall(t, cb, "None")
SubscribeLines(faults) ==
  \/ \E t \in Threads : SubCheck(t)
  \/ \E t \in Threads, ok \in {TRUE} \cup faults : SubAttachX(t, ok)
  \/ \E t \in Threads, ok \in {TRUE} \cup faults : SubAttachY(t, ok)
  \/ \E t \in Threads : SubSetFlag(t)
  \/ \E t \in Threads : SubSuper(t)

\* Interleaved subscribe calls in which every attach succeeds.
RaceNext == SubscribeCalls \/ SubscribeLines({}) \/ Readbacks
SpecRace == InitDefault /\ [][RaceNext]_vars

\* Interleaved subscribe calls in which an attach may raise.
FaultNext == SubscribeCalls \/ SubscribeLines({FALSE}) \/ Readbacks
SpecFault == InitDefault /\ [][FaultNext]_vars

\* ================================================================ claims
AllAxes(f, n) == \A a \in Axes : f[a] = n
InCatch == pc \in {"L185", "L186", "L187"}

\* C1 as stated: for move(size, wait=False) the joint status is unresolved
\* in every state in which the xwidth status or the ywidth status is still
\* unresolved.
C1_UnresolvedWhileEitherPending ==
  (status # "none" /\ ~wait /\ (x_stat = "pending" \/ y_stat = "pending"))
    => status = "pending"

\* C1 amended: for move(size, wait=False) the joint status is unresolved
\* while an axis status is unresolved and no axis status has failed; one
\* axis completing alone never resolves it, and it is successful only when
\* both axis statuses are successful.
C1_JointIsAndBarrier ==
  (status # "none" /\ ~wait) =>
    /\ ((x_stat = "pending" \/ y_stat = "pending")
          /\ x_stat # "failed" /\ y_stat # "failed") => status = "pending"
    /\ status = "success" => (x_stat = "success" /\ y_stat = "success")

\* C1 witness: the status was returned, xwidth alone is complete and the
\* joint status is still unresolved.
C1_Witness ==
  /\ pc = "idle" /\ outcome = "status" /\ ~wait
  /\ x_stat = "success" /\ y_stat = "pending" /\ status = "pending"

\* C2: when the blocking wait is interrupted, the only way out of the call
\* is through stop on xwidth, then stop on ywidth, then the re-raise of the
\* KeyboardInterrupt; the call never returns normally after the interrupt.
C2_StopBothThenReraise ==
  [][ /\ (pc = "L183" /\ pc' = "L185") => (wait /\ AllAxes(stops, 0))
      /\ InCatch => (pc' = pc \/ pc' \in {"L186", "L187", "idle"})
      /\ (InCatch /\ pc' = "idle") =>
           (outcome' = "KeyboardInterrupt" /\ \A a \in Axes : stops'[a] >= 1)
      /\ outcome' = "KeyboardInterrupt" => \A a \in Axes : stops'[a] >= 1
    ]_vars

\* C2 witness: an interrupted blocking move has raised KeyboardInterrupt
\* with both axes stopped.
C2_Witness ==
  /\ pc = "idle" /\ wait /\ outcome = "KeyboardInterrupt"
  /\ AllAxes(stops, 1)

C4_BothWritesOnceBeforeWait ==
  /\ [](/\ \A a \in Axes : writes[a] <= 1
        /\ pc \in {"L176", "L178", "L181", "L183", "L185", "L186", "L187"}
             => AllAxes(writes, 1)
        /\ outcome \in {"status", "RuntimeError", "KeyboardInterrupt"}
             => AllAxes(writes, 1)
        /\ pc = "L175" => (writes["xwidth"] = 1 /\ setpoint["xwidth"] = width)
        /\ pc = "L176" => (setpoint["xwidth"] = width /\ setpoint["ywidth"] = height))
  /\ [][ /\ (pc = "L174" /\ pc' = "L175") => x_stat' = "pending"
         /\ (pc = "L175" /\ pc' = "L176") => y_stat' = "pending" ]_vars

\* C4 witness: the call is in its blocking wait, both setpoints were
\* written once and both moves are still in flight.
C4_Witness ==
  /\ pc = "L183" /\ AllAxes(writes, 1)
  /\ x_stat = "pending" /\ y_stat = "pending"
  /\ width # height

\* C5 as stated: a call that built its joint status and was not interrupted
\* hands that status back, whatever the wait branch and the result.
C5_AlwaysReturnsStatus ==
  (pc = "idle" /\ status # "none" /\ outcome # "KeyboardInterrupt")
    => outcome = "status"

\* C5 amended: move returns the joint status for wait=False whatever its
\* state, and for wait=True when it resolved as success; for wait=True and
\* a failed joint status the wait raises and nothing is returned. The
\* status returned is the AND-combination of the two axis statuses.
C5_ReturnsStatusUnlessWaitFails ==
  /\ (pc = "idle" /\ status # "none" /\ ~wait) => outcome = "status"
  /\ (pc = "idle" /\ status # "none" /\ wait /\ outcome # "KeyboardInterrupt") =>
       /\ status = "success" => outcome = "status"
       /\ status = "failed" => outcome = "RuntimeError"
       /\ Done(status)
  /\ outcome = "status" =>
       /\ status # "none"
       /\ status = "success" <=> (x_stat = "success" /\ y_stat = "success")
       /\ status = "failed" <=> (x_stat = "failed" \/ y_stat = "failed")

\* C5 witness: a blocking move whose joint status failed left by raising.
C5_Witness ==
  /\ pc = "idle" /\ wait /\ status = "failed" /\ outcome = "RuntimeError"

\* C6: with a finite timeout the joint status of a move is eventually
\* resolved, and a blocking move eventually leaves the call (it returns or
\* raises).
C6_JointEventuallyResolves ==
  /\ (status = "pending" /\ timeout = "finite") ~> Done(status)
  /\ (pc = "L183" /\ timeout = "finite") ~> (pc = "idle")

\* C6 witness: a blocking move with a finite timeout ended because the
\* timeout failed its joint status while no axis had completed.
C6_Witness ==
  /\ pc = "idle" /\ wait /\ timeout = "finite"
  /\ status = "failed" /\ outcome = "RuntimeError"
  /\ AllAxes(stops, 0)

C8_InsertedIffBothSmaller ==
  (current_aperture[1] >= 0 /\ current_aperture[2] >= 0) =>
    /\ inserted <=> (current_aperture[1] < nominal_aperture[1]
                       /\ current_aperture[2] < nominal_aperture[2])
    /\ removed <=> ~inserted

\* C8 witness: after a move, the aperture is closed below nominal on the
\* width only, and the device reports removed.
C8_Witness ==
  /\ ncalls >= 1
  /\ current_aperture[1] >= 0
  /\ current_aperture[1] < nominal_aperture[1]
  /\ current_aperture[2] >= nominal_aperture[2]
  /\ removed /\ ~inserted

\* C9: with positive current and nominal apertures, transmission is the
\* smaller current component (the width on a tie) divided by the nominal
\* component of the same dimension, capped at 1.
C9_TransmissionOfSmallerDimension ==
  (current_aperture[1] > 0 /\ current_aperture[2] > 0) =>
    LET i == IF current_aperture[1] <= current_aperture[2] THEN 1 ELSE 2
    IN IF current_aperture[i] >= nominal_aperture[i]
         THEN RatEq(transmission, One)
         ELSE RatEq(transmission, <<current_aperture[i], nominal_aperture[i]>>)

\* C9 witness: the height is the smaller current component, the nominal
\* components differ and the transmission is below 1.
C9_Witness ==
  /\ current_aperture[2] > 0
  /\ current_aperture[2] < current_aperture[1]
  /\ nominal_aperture[1] # nominal_aperture[2]
  /\ RatLess(transmission, One)

\* C10 as stated: in every reachable state the transmission lies in [0, 1].
C10_TransmissionInUnitRange ==
  /\ ~RatLess(transmission, <<0, 1>>)
  /\ ~RatLess(One, transmission)

\* C11 as stated: remove() without a size moves to nominal_aperture, and
\* remove(size) with a size given moves to that size, whatever its value.
\* (A step that enters a call binds wait, moved_cb and timeout to the
\* arguments of the call.)
C11_RemoveMovesToGivenSize ==
  [][ (pc = "idle" /\ pc' # "idle") =>
        /\ Remove(NoSize, wait', moved_cb', timeout') =>
             (width' = nominal_aperture[1] /\ height' = nominal_aperture[2])
        /\ \A s \in Sizes :
             Remove(Scalar(s), wait', moved_cb', timeout') =>
               (width' = s /\ height' = s)
        /\ \A a \in Sizes, b \in Sizes :
             Remove(Pair(a, b), wait', moved_cb', timeout') =>
               (width' = a /\ height' = b)
    ]_vars

\* C12: move(s) and move((s, s)) are the same step of the device for every
\* scalar s, and set(size) is move(size, wait=False); a scalar s is the
\* target of both axes and a pair (a, b) makes a the target of xwidth and
\* b the target of ywidth; the line that moves xwidth writes the width to
\* the xwidth setpoint only and the line that moves ywidth writes the
\* height to the ywidth setpoint only.
C12_ScalarIsSquarePair ==
  /\ [][ (pc = "idle" /\ pc' # "idle") =>
           /\ \A s \in Sizes :
                /\ Move(Scalar(s), wait', moved_cb', timeout')
                     <=> Move(Pair(s, s), wait', moved_cb', timeout')
                /\ Move(Scalar(s), wait', moved_cb', timeout')
                     => (width' = s /\ height' = s)
           /\ \A a \in Sizes, b \in Sizes :
                Move(Pair(a, b), wait', moved_cb', timeout')
                  => (width' = a /\ height' = b)
           /\ \A size \in SizeArgs :
                Set(size) <=> Move(size, FALSE, FALSE, "None")
       ]_vars
  /\ [][ /\ (pc = "L174" /\ pc' = "L175") =>
              /\ setpoint'["xwidth"] = width
              /\ \A a \in Positioners \ {"xwidth"} : setpoint'[a] = setpoint[a]
         /\ (pc = "L175" /\ pc' = "L176") =>
              /\ setpoint'["ywidth"] = height
              /\ \A a \in Positioners \ {"ywidth"} : setpoint'[a] = setpoint[a]
       ]_vars

\* C12 witness: a move to a pair with a width below its height has written
\* both setpoints, the smaller value to xwidth.
C12_Witness ==
  /\ pc = "L176" /\ width < height
  /\ setpoint["xwidth"] = width /\ setpoint["ywidth"] = height
  /\ setpoint["xwidth"] < setpoint["ywidth"]

\* C13: every event run for the subscribers has the event type SUB_STATE
\* and the Slits device as its object, and a change of a width readback
\* that has a listener is forwarded with the value and the old value of
\* the readback event, whichever axis changed.
C13_ForwardedEventIsUniform ==
  /\ [](last_event # NoEvent =>
          (last_event.sub_type = SUB_STATE /\ last_event.obj = "slits"))
  /\ [][ \A a \in Axes :
           (readback'[a] # readback[a] /\ listeners[a] > 0) =>
             last_event' = [sub_type |-> SUB_STATE, obj |-> "slits",
                            value |-> readback'[a], old_value |-> readback[a]]
       ]_vars

\* C13 witness: the last forwarded event came from a change of the ywidth
\* readback while the xwidth readback holds another value.
C13_Witness ==
  /\ last_event # NoEvent
  /\ last_event.sub_type = SUB_STATE /\ last_event.obj = "slits"
  /\ last_event.value = readback["ywidth"]
  /\ last_event.value # last_event.old_value
  /\ last_event.value # readback["xwidth"]

\* C14: stage saves, under the xwidth setpoint and the ywidth setpoint and
\* under no other signal, the readback value the same axis has at that
\* time; nothing but stage and unstage changes the saved values, so moves
\* and readback changes in between leave them alone; unstage writes each
\* saved value to its setpoint, leaves the center setpoints alone and
\* empties the saved values.
C14_StageSavesReadbacksUnstageRestores ==
  /\ [](staged = "yes" =>
          DOMAIN original_vals = {<<"xwidth", "setpoint">>, <<"ywidth", "setpoint">>})
  /\ [][ /\ Stage =>
              /\ DOMAIN original_vals' =
                   {<<"xwidth", "setpoint">>, <<"ywidth", "setpoint">>}
              /\ \A a \in Axes : original_vals'[<<a, "setpoint">>] = readback[a]
         /\ (original_vals' # original_vals) => (Stage \/ Unstage)
         /\ (Unstage /\ staged = "yes") =>
              /\ \A a \in Axes : setpoint'[a] = original_vals[<<a, "setpoint">>]
              /\ \A a \in Positioners \ Axes : setpoint'[a] = setpoint[a]
              /\ original_vals' = NoVals
       ]_vars

\* C14 witness: after stage, a move and unstage, the xwidth setpoint holds
\* a negative value, which no move writes: the readback saved by stage.
C14_Witness ==
  /\ staged = "no" /\ original_vals = NoVals
  /\ writes["xwidth"] = 1 /\ pc = "idle"
  /\ setpoint["xwidth"] < 0
  /\ setpoint["xwidth"] # width

\* C15 as stated: the setpoint, readback and done-flag addresses of one
\* positioner are shared with no other positioner of the device, and no
\* single done-flag transition completes the moves of both width axes.
C15_DisjointAddresses ==
  /\ [](\A a \in Positioners, b \in Positioners :
          a # b => {setpoint_pv(a), readback_pv(a), done_pv(a)}
                     \cap {setpoint_pv(b), readback_pv(b), done_pv(b)} = {})
  /\ [][ ~(/\ x_stat = "pending" /\ y_stat = "pending"
           /\ x_stat' = "success" /\ y_stat' = "success") ]_vars

\* C15 amended: the setpoint and readback addresses of the four
\* positioners are pairwise distinct and distinct from the command and
\* done-flag addresses, but the done-flag address is one and the same for
\* all four; a done-flag transition that completes the pending move of one
\* width axis completes the pending move of the other in the same step.
C15_SharedDoneFlag ==
  /\ [](\A a \in Positioners, b \in Positioners :
          /\ a # b => {setpoint_pv(a), readback_pv(a)}
                        \cap {setpoint_pv(b), readback_pv(b)} = {}
          /\ setpoint_pv(a) # readback_pv(a)
          /\ done_pv(a) = done_pv(b)
          /\ done_pv(a) \notin {setpoint_pv(b), readback_pv(b)}
          /\ \A c \in CommandNames :
               command_pv(c) \notin {setpoint_pv(a), readback_pv(a), done_pv(a)})
  /\ [][ (x_stat = "pending" /\ y_stat = "pending"
            /\ (x_stat' = "success" \/ y_stat' = "success"))
           => (x_stat' = "success" /\ y_stat' = "success") ]_vars

\* C15 witness: both width moves are complete before the call has combined
\* their statuses, the done flag reading done for both axes.
C15_Witness ==
  /\ pc = "L176" /\ ncalls = 1
  /\ x_stat = "success" /\ y_stat = "success"
  /\ ~moving["xwidth"] /\ ~moving["ywidth"]

\* C16: open, close and block write their own command PV, whose address
\* is that of no other signal of the device, and change nothing else: the
\* setpoints, the statuses and the position of a running call, the saved
\* stage values and the subscription state stay as they are.
C16_CommandsWriteOnlyTheirChannel ==
  /\ [](\A c \in CommandNames, d \in CommandNames :
          c # d => command_pv(c) # command_pv(d))
  /\ [][ /\ Open => last_cmd' = "open"
         /\ Close => last_cmd' = "close"
         /\ Block => last_cmd' = "block"
         /\ (Open \/ Close \/ Block) =>
              /\ UNCHANGED <<setpoint, x_stat, y_stat, status, pc, outcome, writes>>
              /\ UNCHANGED <<original_vals, staged>>
              /\ UNCHANGED <<has_subscribed, listeners, subs>>
       ]_vars

\* C16 witness: close was the last command while a move has written a
\* non-zero width setpoint, values are staged and a subscriber is attached.
C16_Witness ==
  /\ last_cmd = "close"
  /\ setpoint["xwidth"] # 0
  /\ staged = "yes" /\ DOMAIN original_vals # {}
  /\ has_subscribed /\ subs[SUB_STATE] # {}
  /\ status = "pending"

\* C17 as stated: the completion callback is never invoked while the
\* status of either axis is unresolved.
C17_NeverWhileAxisUnresolved ==
  cb_calls >= 1 => (x_stat # "pending" /\ y_stat # "pending")

\* C17 amended: the completion callback is invoked at most once per move
\* and only with the joint status resolved; once line 178 has run, it has
\* been invoked exactly when the joint status is resolved, whether that
\* happened before or after the callback was attached; a joint status that
\* resolved as success has both axes complete, one that resolved as failed
\* may leave the other axis unresolved. Without a callback nothing runs.
C17_OnceOnJointResolution ==
  /\ cb_calls <= 1
  /\ cb_calls = 1 => (moved_cb /\ Done(status))
  /\ ~moved_cb => (cb_calls = 0 /\ ~cb_attached)
  /\ (moved_cb /\ status # "none" /\ pc \notin {"L174", "L175", "L176", "L178"}) =>
       (cb_calls = 1 <=> Done(status))
  /\ (cb_calls = 1 /\ status = "success") =>
       (x_stat = "success" /\ y_stat = "success")

\* C17 witness: the callback ran once on a joint status that failed with
\* xwidth while ywidth is still unresolved.
C17_Witness ==
  /\ moved_cb /\ cb_calls = 1
  /\ status = "failed" /\ x_stat = "failed" /\ y_stat = "pending"

\* C18 as stated: whatever the interleaving of two subscribe calls, once
\* both are over each width readback has at most one internal listener.
C18_NoDuplicateListeners ==
  (\A t \in Threads : sub_pc[t] = "idle") => \A a \in Axes : listeners[a] <= 1

\* C19: whenever no subscribe call is running, also after a call in which
\* an attach raised, the flag is true exactly when both width readbacks
\* have the internal listener attached; the flag never goes back to false.
C19_FlagIffBothAttached ==
  /\ []((\A t \in Threads : sub_pc[t] = "idle") =>
          (has_subscribed <=> \A a \in Axes : listeners[a] >= 1))
  /\ [][ has_subscribed => has_subscribed' ]_vars

\* C19 witness: a subscribe call ended by the attach to ywidth raising:
\* xwidth has its listener, ywidth has none and the flag is false.
C19_Witness ==
  /\ \A t \in Threads : sub_pc[t] = "idle"
  /\ nsubscribes >= 1
  /\ listeners["xwidth"] = 1 /\ listeners["ywidth"] = 0
  /\ ~has_subscribed

\* C20: with a positive nominal aperture and a non-negative current
\* aperture, inserted implies a transmission strictly below 1, and a
\* transmission of 1 implies removed.
C20_InsertedMeansPartialTransmission ==
  (/\ nominal_aperture[1] > 0 /\ nominal_aperture[2] > 0
   /\ current_aperture[1] >= 0 /\ current_aperture[2] >= 0) =>
    /\ inserted => RatLess(transmission, One)
    /\ RatEq(transmission, One) => removed

\* C20 witness: the device is inserted with a positive aperture and the
\* transmission is below 1.
C20_Witness ==
  /\ inserted
  /\ current_aperture[1] > 0 /\ current_aperture[2] > 0
  /\ RatLess(transmission, One)

====
